---- MODULE Spec2Model ----
(***************************************************************************)
(* A model of clutch.c, the Lua binding of SQLite: the parameter binder,   *)
(* the statement and connection wrappers, the row iteration functions and  *)
(* the savepoint transaction wrapper.                                      *)
(*                                                                         *)
(* Lua values are records [t, v]; the Lua stack is a sequence whose last   *)
(* element is the top (index -1).  Strings that the code inspects by       *)
(* character (parameter names) are sequences of one-character strings, so  *)
(* that name[0] is name[1] here and name + 1 is Tail(name).                *)
(***************************************************************************)
EXTENDS Integers, Sequences, FiniteSets, TLC

\* ---------------------------------------------------------------- bounds
MaxParams == 2
MaxArgs == 2
MaxPairs == 2
MaxLocals == 2

MaxCloseCalls == 2
MaxFailAt == 2

MaxDepth == 2
MaxWrites == 2
MaxTxnCalls == 3

VARIABLES call, res, res2, db, stmt, it, last, conn, frames, ret, used

bindVars == <<call, res, res2>>
stmtVars == <<db, stmt, it, last>>
txnVars == <<conn, frames, ret, used>>
vars == <<call, res, res2, db, stmt, it, last, conn, frames, ret, used>>

None == [msg |-> "no result"]

\* ------------------------------------------------------------ Lua values
Nil == [t |-> "nil", v |-> "nil"]
StrV(s) == [t |-> "string", v |-> s]
IntV(s) == [t |-> "integer", v |-> s]
FltV(s) == [t |-> "float", v |-> s]
BoolV(s) == [t |-> "boolean", v |-> s]
Udata(s) == [t |-> "userdata", v |-> s]
Func(s) == [t |-> "function", v |-> s]
\* a table built by a constructor: the sequence of its <<key, value>> pairs in
\* insertion order, the keys distinct
Tbl(pairs) == [t |-> "table", v |-> pairs]
IntKey(i) == <<"int", i>>
StrKey(s) == <<"str", s>>

\* a string longer than the engine's SQLITE_LIMIT_LENGTH
HugeStr == StrV("HUGE")

lua_isstring(v) == v.t \in {"string", "integer", "float"}
lua_isinteger(v) == v.t = "integer"
lua_isnumber(v) == v.t \in {"integer", "float"}
lua_isnil(v) == v.t = "nil"
lua_istable(v) == v.t = "table"
\* lua_tolstring converts a number on the stack to its decimal text
lua_tolstring(v) == v.v

\* ------------------------------------------------------------- Lua stack
lua_gettop(stack) == Len(stack)

lua_settop(stack, n) ==
  IF n <= Len(stack) THEN SubSeq(stack, 1, n)
  ELSE stack \o [i \in 1..(n - Len(stack)) |-> Nil]

lua_pop(stack, n) == SubSeq(stack, 1, Len(stack) - n)

lua_push(stack, v) == Append(stack, v)

AbsIndex(stack, idx) == IF idx < 0 THEN Len(stack) + idx + 1 ELSE idx

\* lua_insert moves the top element to position idx, shifting the rest up
lua_insert(stack, idx) ==
  LET p == AbsIndex(stack, idx)
      n == Len(stack)
  IN SubSeq(stack, 1, p - 1) \o <<stack[n]>> \o SubSeq(stack, p, n - 1)

Top(stack) == stack[Len(stack)]

\* the values a C function returns: the top nret values of its stack
Ret(stack, nret) == SubSeq(stack, Len(stack) - nret + 1, Len(stack))

SeqsUpTo(S, n) == UNION {[1..k -> S] : k \in 0..n}

\* ---------------------------------------------------------- table access
RECURSIVE rawget(_, _)
rawget(pairs, key) ==
  IF pairs = <<>> THEN Nil
  ELSE IF Head(pairs)[1] = key THEN Head(pairs)[2]
  ELSE rawget(Tail(pairs), key)

\* Indexing a value: a table answers from its pairs; a string answers through
\* the string metatable, whose __index is the string library (none of the keys
\* used here is a library function); any other value cannot be indexed.
CanIndex(v) == v.t \in {"table", "string"}

lua_index(v, key) == IF v.t = "table" THEN rawget(v.v, key) ELSE Nil

lua_geti(v, i) == lua_index(v, IntKey(i))

lua_getfield(v, k) == lua_index(v, StrKey(k))

\* ------------------------------------------------------ engine: binding
SqlNull == [k |-> "NULL", v |-> "null"]
SqlText(s) == [k |-> "TEXT", v |-> s]
SqlInt(s) == [k |-> "INTEGER", v |-> s]
SqlFloat(s) == [k |-> "FLOAT", v |-> s]

NoName == <<>>
NoErr == [msg |-> "none", type |-> "", pos |-> 0]
Err(m) == [msg |-> m, type |-> "", pos |-> 0]

\* The statement as the binder sees it, with the Lua stack of the running C
\* function: h the native handle (FALSE is NULL), names the engine's table of
\* parameter names, bound the values bound so far, vm the state of the
\* engine's virtual machine, status the last status returned, err the Lua
\* error raised (NoErr while none is).
sqlite3_bind_parameter_count(b) == IF b.h THEN Len(b.names) ELSE 0

sqlite3_bind_parameter_name(b, i) == b.names[i]

\* sqlite3_bind_*: the engine refuses a bind on a NULL handle or on a
\* statement that has been stepped and not reset (SQLITE_MISUSE), refuses a
\* text over its length limit after clearing the parameter (SQLITE_TOOBIG),
\* and otherwise stores the value.
sqlite3_bind(b, index, val) ==
  IF ~b.h \/ b.vm # "ready" THEN [b EXCEPT !.status = "MISUSE"]
  ELSE IF index \notin 1..Len(b.bound) THEN [b EXCEPT !.status = "RANGE"]
  ELSE IF val = SqlText(HugeStr.v)
    THEN [b EXCEPT !.bound[index] = SqlNull, !.status = "TOOBIG"]
  ELSE [b EXCEPT !.bound[index] = val, !.status = "OK"]

Pop1(b) == [b EXCEPT !.stack = lua_pop(b.stack, 1)]

Raised(b) == b.err # NoErr

\* ---------------------------------------------------------------- binder
bind_one_param(b, index) ==
  LET v == Top(b.stack) IN
  IF lua_isstring(v) THEN Pop1(sqlite3_bind(b, index, SqlText(lua_tolstring(v))))
  ELSE IF lua_isinteger(v) THEN Pop1(sqlite3_bind(b, index, SqlInt(v.v)))
  ELSE IF lua_isnumber(v) THEN Pop1(sqlite3_bind(b, index, SqlFloat(v.v)))
  ELSE IF lua_isnil(v) THEN Pop1(sqlite3_bind(b, index, SqlNull))
  ELSE [b EXCEPT !.err = [msg |-> "unsupported lua type", type |-> v.t, pos |-> index]]

RECURSIVE bind_varargs_loop(_, _)
bind_varargs_loop(b, count) ==
  IF count <= 0 THEN b
  ELSE LET b1 == bind_one_param(b, count) IN
       IF Raised(b1) \/ b1.status # "OK" THEN b1
       ELSE bind_varargs_loop(b1, count - 1)

\* bind_varargs without the adjustment of the stack to count values
bind_varargs_nosettop(b, nparams) ==
  bind_varargs_loop([b EXCEPT !.status = "OK"], sqlite3_bind_parameter_count(b))

bind_varargs(b, nparams) ==
  LET count == sqlite3_bind_parameter_count(b)
      b0 == [b EXCEPT !.stack = lua_settop(b.stack, lua_gettop(b.stack) + (count - nparams)),
                      !.status = "OK"]
  IN bind_varargs_loop(b0, count)

\* bind_params looking every parameter up by its index
RECURSIVE bind_params_loop_byindex(_, _)
bind_params_loop_byindex(b, i) ==
  IF i > sqlite3_bind_parameter_count(b) THEN b
  ELSE LET b1 == bind_one_param(
                   [b EXCEPT !.stack = lua_push(b.stack, lua_geti(Top(b.stack), i))], i)
       IN IF Raised(b1) \/ b1.status # "OK" THEN b1
          ELSE bind_params_loop_byindex(b1, i + 1)

RECURSIVE bind_params_loop(_, _)
bind_params_loop(b, i) ==
  IF i > sqlite3_bind_parameter_count(b) THEN b
  ELSE LET name == sqlite3_bind_parameter_name(b, i)
           t == Top(b.stack)
           val == IF name = NoName \/ name[1] = "?" THEN lua_geti(t, i)
                  ELSE lua_getfield(t, Tail(name))
       IN IF ~CanIndex(t)
          THEN [b EXCEPT !.err = [msg |-> "attempt to index", type |-> t.t, pos |-> i]]
          ELSE LET b1 == bind_one_param([b EXCEPT !.stack = lua_push(b.stack, val)], i) IN
               IF Raised(b1) \/ b1.status # "OK" THEN b1
               ELSE bind_params_loop(b1, i + 1)

bind_params(b) ==
  LET r == bind_params_loop([b EXCEPT !.status = "OK"], 1) IN
  IF Raised(r) THEN r ELSE Pop1(r)

is_named_parameter(name) == name[1] = ":" \/ name[1] = "@" \/ name[1] = "$"

\* locals: the active local variables of the calling Lua function, in the
\* order lua_getlocal numbers them (declaration order), as [name, val].
RECURSIVE find_local_from(_, _, _)
find_local_from(locals, name, index) ==
  IF index > Len(locals) THEN Nil
  ELSE IF locals[index].name = name THEN locals[index].val
  ELSE find_local_from(locals, name, index + 1)

find_local(locals, name) == find_local_from(locals, name, 1)

RECURSIVE bind_locals_loop(_, _, _)
bind_locals_loop(b, locals, i) ==
  IF i > sqlite3_bind_parameter_count(b) THEN b
  ELSE LET name == sqlite3_bind_parameter_name(b, i) IN
       IF name = NoName \/ ~is_named_parameter(name)
       THEN [b EXCEPT !.err = Err("anonymous and numbered parameters not supported")]
       ELSE LET b1 == bind_one_param(
                        [b EXCEPT !.stack = lua_push(b.stack, find_local(locals, Tail(name)))], i)
            IN IF Raised(b1) \/ b1.status # "OK" THEN b1
               ELSE bind_locals_loop(b1, locals, i + 1)

bind_locals(b, locals) == bind_locals_loop([b EXCEPT !.status = "OK"], locals, 1)

bind_stmt(b, nargs, locals) ==
  LET top == lua_gettop(b.stack) IN
  IF top < nargs + 1 THEN bind_locals(b, locals)
  ELSE IF lua_istable(b.stack[nargs + 1]) THEN bind_params(b)
  ELSE bind_varargs(b, top - nargs)

\* ------------------------------------------------------ engine: stepping
\* A Statement wrapper and the engine's statement behind it.  h is the
\* wrapper's handle (FALSE is NULL), ever whether it was ever non-NULL, fins
\* the number of sqlite3_finalize calls made on it, held whether the host
\* program holds a reference to the wrapper, gone whether the collector has
\* finalized and freed the wrapper, failed whether the prepare that made it
\* failed.  The statements prepared here select the
\* bound parameters that are not NULL, one row each, in parameter order.
NoStmt ==
  [h |-> FALSE, ever |-> FALSE, sql |-> "none", names |-> <<>>, bound |-> <<>>,
   vm |-> "ready", cursor |-> 0, oneshot |-> FALSE, held |-> FALSE, gone |-> TRUE,
   fins |-> 0, finCalls |-> 0, failed |-> FALSE]

SqlKinds == {"anon", "named", "empty", "bad"}

NamesOfSql(sql) ==
  IF sql = "anon" THEN <<NoName, NoName>>
  ELSE IF sql = "named" THEN <<<<":", "a">>, <<"@", "b">>>>
  ELSE <<>>

RowsOf(st) == SelectSeq(st.bound, LAMBDA v : v # SqlNull)

\* sqlite3_prepare_v2: SQLITE_MISUSE on a NULL connection, an error for SQL
\* that does not compile, SQLITE_OK with a NULL statement for SQL that holds
\* no statement, SQLITE_OK with a statement otherwise.
sqlite3_prepare_v2(dbh, sql) ==
  IF ~dbh THEN [status |-> "MISUSE", h |-> FALSE]
  ELSE IF sql = "bad" THEN [status |-> "ERROR", h |-> FALSE]
  ELSE IF sql = "empty" THEN [status |-> "OK", h |-> FALSE]
  ELSE [status |-> "OK", h |-> TRUE]

sqlite3_reset(st) == IF st.h THEN [st EXCEPT !.vm = "ready", !.cursor = 0] ELSE st

\* The running C function: the statement st, the Lua stack, the error raised,
\* the status of the last engine call, the number of sqlite3_step calls made,
\* the call at which the engine fails (0: at none), the value r returned by
\* step, the status bstatus that bind_stmt returned.
Run(st, stack, failAt) ==
  [st |-> st, stack |-> stack, err |-> NoErr, status |-> "OK", steps |-> 0,
   failAt |-> failAt, r |-> 0, bstatus |-> "none", stepErr |-> FALSE]

\* sqlite3_step: SQLITE_MISUSE on a NULL statement; an engine failure halts
\* the statement; a halted statement is reset first (the engine's automatic
\* reset); then the next row, or SQLITE_DONE after the last.
sqlite3_step(x) ==
  LET n == x.steps + 1 IN
  IF ~x.st.h THEN [x EXCEPT !.steps = n, !.status = "MISUSE"]
  ELSE IF n = x.failAt
    THEN [x EXCEPT !.steps = n, !.status = "ERROR", !.st.vm = "halted", !.stepErr = TRUE]
  ELSE LET st1 == IF x.st.vm = "halted" THEN sqlite3_reset(x.st) ELSE x.st IN
       IF st1.cursor < Len(RowsOf(st1))
       THEN [x EXCEPT !.steps = n, !.status = "ROW",
                      !.st = [st1 EXCEPT !.vm = "running", !.cursor = @ + 1]]
       ELSE [x EXCEPT !.steps = n, !.status = "DONE", !.st = [st1 EXCEPT !.vm = "halted"]]

\* the row table built from the current row, whose one column is named v
handle_row(val) ==
  LET hv == IF val.k = "INTEGER" THEN IntV(val.v)
            ELSE IF val.k = "FLOAT" THEN FltV(val.v)
            ELSE IF val.k \in {"TEXT", "BLOB"} THEN StrV(val.v)
            ELSE Nil
  IN Tbl(IF hv = Nil THEN <<>> ELSE <<<<StrKey(<<"v">>), hv>>>>)

\* step taking every status but SQLITE_ROW for the end of the results
step_status_quiet(y) ==
  IF y.status # "ROW" THEN [y EXCEPT !.r = 0]
  ELSE [y EXCEPT !.stack = lua_push(y.stack, handle_row(RowsOf(y.st)[y.st.cursor])),
                 !.r = 1]

\* step from the status y of its sqlite3_step
step_status(y) ==
  IF y.status # "ROW"
  THEN IF y.status # "DONE" THEN [y EXCEPT !.err = Err("step"), !.r = 0]
       ELSE [y EXCEPT !.r = 0]
  ELSE [y EXCEPT !.stack = lua_push(y.stack, handle_row(RowsOf(y.st)[y.st.cursor])),
                 !.r = 1]

step(x) == step_status(sqlite3_step(x))

\* A function that is given the statement by prepare_query or rebind_stmt
\* does not run when that has raised: x is then returned as it is.

\* step_one from the result y2 of its second step
step_one_second(y2) ==
  IF Raised(y2) THEN y2
  ELSE IF y2.r # 0 THEN [y2 EXCEPT !.err = Err("too many results")]
  ELSE y2

\* step_one from the result y1 of its first step
step_one_first(y1) ==
  IF Raised(y1) THEN y1
  ELSE IF y1.r = 0 THEN [y1 EXCEPT !.err = Err("no results")]
  ELSE step_one_second(step(y1))

\* step_one returning the first row without asking for a second
step_one_nosecond(x) ==
  IF Raised(x) THEN x
  ELSE LET y1 == step(x) IN
       IF Raised(y1) THEN y1
       ELSE IF y1.r = 0 THEN [y1 EXCEPT !.err = Err("no results")]
       ELSE y1

step_one(x) == IF Raised(x) THEN x ELSE step_one_first(step(x))

\* lua_rawseti(L, -2, i): pops the value and stores it at key i of the table
\* below it
lua_rawseti2(stack, i) ==
  LET n == Len(stack)
      t == stack[n - 1]
  IN Append(SubSeq(stack, 1, n - 2), Tbl(Append(t.v, <<IntKey(i), stack[n]>>)))

RECURSIVE step_all_loop(_, _)
\* step_all storing the first row and leaving the loop
step_all_body_once(y, i) ==
  IF Raised(y) \/ y.r = 0 THEN y
  ELSE [y EXCEPT !.stack = lua_rawseti2(y.stack, i)]

\* the loop of step_all from the result y of step, at index i
step_all_body(y, i) ==
  IF Raised(y) \/ y.r = 0 THEN y
  ELSE step_all_loop([y EXCEPT !.stack = lua_rawseti2(y.stack, i)], i + 1)

step_all_loop(x, i) == step_all_body(step(x), i)

step_all(x) ==
  IF Raised(x) THEN x
  ELSE step_all_loop([x EXCEPT !.stack = lua_push(x.stack, Tbl(<<>>))], 1)

\* ------------------------------------------------- statements and binding
\* the running function's statement and stack as bind_stmt is given them
BindStart(x) ==
  [h |-> x.st.h, names |-> x.st.names, bound |-> x.st.bound, vm |-> x.st.vm,
   stack |-> x.stack, status |-> "OK", err |-> NoErr]

\* the running function after bind_stmt has returned, or raised, b
BindDone(x, b) ==
  [x EXCEPT !.st.bound = b.bound, !.stack = b.stack, !.status = b.status,
            !.err = b.err, !.bstatus = IF Raised(b) THEN "raised" ELSE b.status]

\* bind_stmt on the running function's statement and stack
BindIn(x, nargs, locals) == BindDone(x, bind_stmt(BindStart(x), nargs, locals))

\* prepare_stmt: the new wrapper, holding NULL, is inserted at stack index 3;
\* the engine's handle is stored in it; a failed prepare raises.
prepare_stmt(dbh, sql, stack, oneshot, failAt) ==
  LET p == sqlite3_prepare_v2(dbh, sql)
      st == [NoStmt EXCEPT !.h = p.h, !.ever = p.h, !.sql = sql,
                           !.names = IF p.h THEN NamesOfSql(sql) ELSE <<>>,
                           !.bound = IF p.h THEN [i \in 1..Len(NamesOfSql(sql)) |-> SqlNull]
                                     ELSE <<>>,
                           !.oneshot = oneshot, !.held = ~oneshot, !.gone = FALSE,
                           !.failed = p.status # "OK"]
      x == Run(st, lua_insert(lua_push(stack, Udata("stmt")), 3), failAt)
  IN IF p.status # "OK" THEN [x EXCEPT !.status = p.status, !.err = Err("prepare")]
     ELSE x

\* prepare_query from the status z of its bind_stmt
prepare_query_status(z) ==
  IF ~Raised(z) /\ z.status # "OK" THEN [z EXCEPT !.err = Err("bind")] ELSE z

\* prepare_query from the result x of its prepare_stmt
prepare_query_bind(x, locals) ==
  IF Raised(x) THEN x ELSE prepare_query_status(BindIn(x, 3, locals))

prepare_query(dbh, sql, args, locals, failAt) ==
  prepare_query_bind(
    prepare_stmt(dbh, sql, <<Udata("db"), StrV("sql")>> \o args, TRUE, failAt), locals)

rebind_stmt(st, args, locals, failAt) ==
  BindIn(Run(sqlite3_reset(st), <<Udata("stmt")>> \o args, failAt), 1, locals)

close_sqlite_stmt_keep(st) ==
  IF st.h THEN [st EXCEPT !.fins = @ + 1] ELSE st

close_sqlite_stmt(st) ==
  IF st.h THEN [st EXCEPT !.fins = @ + 1, !.h = FALSE] ELSE st

\* close_sqlite releasing nothing
close_sqlite_leak(d) == d

close_sqlite_keep(d) ==
  IF d.h THEN [d EXCEPT !.closes = @ + 1] ELSE d

close_sqlite(d) ==
  IF d.h THEN [d EXCEPT !.closes = @ + 1, !.h = FALSE] ELSE d

\* ----------------------------------------------------- engine: savepoints
\* The connection as the engine keeps it: data the rows a query on the
\* connection sees, sps the stack of open savepoints, each holding the rows
\* that were visible when it was opened.  Every savepoint db_transaction
\* opens has the one name clutch_savepoint, and RELEASE and ROLLBACK TO act
\* on the most recent savepoint of the name they are given.
NoConn == [data |-> {}, sps |-> <<>>, status |-> "OK"]

\* sqlite3_exec of one of the three commands of db_transaction; fail is the
\* engine refusing the command.  RELEASE removes the savepoint; ROLLBACK TO
\* restores the rows of the savepoint and leaves it on the stack.
sqlite3_exec(e, dbh, cmd, fail) ==
  IF ~dbh THEN [e EXCEPT !.status = "MISUSE"]
  ELSE IF fail THEN [e EXCEPT !.status = "ERROR"]
  ELSE IF cmd = "SAVEPOINT" THEN [e EXCEPT !.sps = Append(@, e.data), !.status = "OK"]
  ELSE IF e.sps = <<>> THEN [e EXCEPT !.status = "ERROR"]
  ELSE IF cmd = "RELEASE"
    THEN [e EXCEPT !.sps = SubSeq(@, 1, Len(@) - 1), !.status = "OK"]
  ELSE [e EXCEPT !.data = e.sps[Len(e.sps)], !.status = "OK"]

\* the outcome of the db_transaction call that has just ended, and the
\* numbers of rows written and of db_transaction calls made so far
NoRet == [op |-> "none", out |-> "ret", err |-> NoErr, vals |-> <<>>, events |-> <<>>,
          bodyOut |-> "none", bodyVals |-> <<>>, bodyArgs |-> <<>>, wrote |-> {},
          before |-> 0, nested |-> FALSE]
NoUsed == [writes |-> 0, calls |-> 0]

lua_pushboolean(stack, b) == lua_push(stack, BoolV(IF b THEN "true" ELSE "false"))

\* db_transaction up to lua_pcall: the argument check, the savepoint, the
\* stack cut to the connection and the body and the two swapped.  events is
\* what the call has done so far, in order.
db_transaction_enter(e, dbh, stack, fail) ==
  IF Len(stack) < 2 \/ stack[2].t # "function"
  THEN [conn |-> e, stack |-> stack, err |-> Err("argument 2 is not a function"),
        events |-> <<>>]
  ELSE LET e1 == sqlite3_exec(e, dbh, "SAVEPOINT", fail) IN
       IF e1.status # "OK"
       THEN [conn |-> e1, stack |-> stack, err |-> Err("savepoint"),
             events |-> <<"SAVEPOINT failed">>]
       ELSE [conn |-> e1, stack |-> lua_insert(lua_settop(stack, 2), -2), err |-> NoErr,
             events |-> <<"SAVEPOINT", "body">>]

\* db_transaction from the return of lua_pcall, without moving the flag below
\* the body's values
db_transaction_leave_noinsert(e, dbh, ok, stack) ==
  LET cmd == IF ok THEN "RELEASE" ELSE "ROLLBACK TO"
      s1 == lua_pushboolean(stack, ok)
  IN [conn |-> sqlite3_exec(e, dbh, cmd, FALSE), events |-> <<cmd>>,
      vals |-> Ret(s1, lua_gettop(s1))]

\* db_transaction from the return of lua_pcall, which has left the body's
\* results, or its error value, on the stack in place of the body and its
\* argument
db_transaction_leave(e, dbh, ok, stack) ==
  LET cmd == IF ok THEN "RELEASE" ELSE "ROLLBACK TO"
      s1 == lua_pushboolean(stack, ok)
      s2 == lua_insert(s1, 1)
  IN [conn |-> sqlite3_exec(e, dbh, cmd, FALSE), events |-> <<cmd>>,
      vals |-> Ret(s2, lua_gettop(s2))]

\* =====================================================================
\* One Connection, one Statement wrapper at a time, one iterator closure at
\* a time, and the host program calling the methods on them.  Statement
\* wrappers share nothing but the connection, so a second one would repeat
\* the first.
\* =====================================================================
NoDb == [exists |-> FALSE, h |-> FALSE, ever |-> FALSE, closes |-> 0, closeCalls |-> 0,
         held |-> FALSE, gone |-> FALSE, failed |-> FALSE]
NoIter == [live |-> FALSE, up |-> Nil, ended |-> FALSE]
NoLast == [op |-> "none", out |-> "ret", err |-> NoErr, vals |-> <<>>, steps |-> 0,
           bstatus |-> "none", args |-> <<>>, stepErr |-> FALSE, rows |-> <<>>, h |-> FALSE,
           ended |-> FALSE, failedAt |-> 0]

Last(op, x, nret, args) ==
  [op |-> op, out |-> IF Raised(x) THEN "raise" ELSE "ret", err |-> x.err,
   vals |-> IF Raised(x) THEN <<>> ELSE Ret(x.stack, nret), steps |-> x.steps,
   bstatus |-> x.bstatus, args |-> args, stepErr |-> x.stepErr,
   rows |-> IF x.st.h THEN RowsOf(x.st) ELSE <<>>, h |-> x.st.h, ended |-> FALSE,
   failedAt |-> IF x.stepErr THEN x.failAt ELSE 0]

\* the argument lists the program passes: none; positional values, fewer
\* than and as many as the parameters, with nil, with a text the engine
\* refuses, with a boolean; one table; a table and a further value
ATable == Tbl(<<<<IntKey(1), StrV("x")>>, <<StrKey(<<"a">>), StrV("x")>>>>)
StmtArgLists ==
  {<<>>, <<Nil>>, <<StrV("x")>>, <<StrV("x"), StrV("x")>>, <<Nil, HugeStr>>,
   <<BoolV("true")>>, <<ATable>>, <<ATable, StrV("x")>>}

\* the calls of a db method: SQL that gives no statement takes no arguments
QueryCalls ==
  {c \in [sql : SqlKinds, args : StmtArgLists, failAt : 0..MaxFailAt] :
     c.sql \in {"empty", "bad"} => (c.args = <<>> /\ c.failAt = 0)}
\* the locals of the Lua function that calls the methods
CallerLocals == <<[name |-> <<"a">>, val |-> StrV("x")]>>
FailAts == 0..MaxFailAt

\* the C function that ran as x returns its top nret values, or raises
Returns(op, x, nret, args) ==
  /\ stmt' = x.st
  /\ last' = Last(op, x, nret, args)

\* the C function that ran as x pushes the closure of iter over the value on
\* top of its stack and returns it, unless x has raised
ReturnsIter(op, x, args) ==
  /\ stmt' = x.st
  /\ it' = IF Raised(x) THEN it ELSE [live |-> TRUE, up |-> Top(x.stack), ended |-> FALSE]
  /\ last' = Last(op, IF Raised(x) THEN x ELSE [x EXCEPT !.stack = <<Func("iter")>>], 1, args)

OpenDb == [NoDb EXCEPT !.exists = TRUE, !.h = TRUE, !.ever = TRUE, !.held = TRUE]

InitStmt ==
  /\ db = OpenDb /\ stmt = NoStmt /\ it = NoIter /\ last = NoLast
  /\ conn = NoConn /\ frames = <<>> /\ ret = NoRet /\ used = NoUsed
  /\ call = [names |-> <<>>, args |-> <<>>, locals |-> <<>>]
  /\ res = None /\ res2 = None

SlotFree == stmt.gone
UsesStmt(i) == i.live /\ i.up = Udata("stmt")

\* sqlite3_open leaves a handle even when it fails, unless it is out of memory
clutch_open ==
  /\ ~db.exists
  /\ \E ok \in BOOLEAN, handle \in BOOLEAN :
       /\ ok => handle
       /\ LET d == [NoDb EXCEPT !.exists = TRUE, !.h = handle, !.ever = handle, !.held = ok,
                                !.failed = ~ok] IN
          /\ db' = IF ok THEN d ELSE close_sqlite(d)
          /\ last' = [NoLast EXCEPT !.op = "clutch_open",
                                    !.out = IF ok THEN "ret" ELSE "raise",
                                    !.err = IF ok THEN NoErr ELSE Err("open"),
                                    !.vals = IF ok THEN <<Udata("db")>> ELSE <<>>]
  /\ UNCHANGED <<stmt, it, bindVars, txnVars>>

\* db:close() by the program, or __gc by the collector once the program has
\* dropped the Connection
db_close ==
  /\ db.exists /\ ~db.gone
  /\ \E gc \in BOOLEAN :
       /\ IF gc THEN ~db.held ELSE db.held /\ db.closeCalls < MaxCloseCalls
       /\ db' = [close_sqlite(db) EXCEPT !.closeCalls = @ + 1, !.gone = gc]
  /\ last' = [NoLast EXCEPT !.op = "db_close"]
  /\ UNCHANGED <<stmt, it, bindVars, txnVars>>

db_prepare ==
  /\ db.held /\ SlotFree
  /\ \E sql \in SqlKinds :
       LET x == prepare_stmt(db.h, sql, <<Udata("db"), StrV("sql")>>, FALSE, 0) IN
       /\ stmt' = IF Raised(x) THEN [x.st EXCEPT !.held = FALSE] ELSE x.st
       /\ last' = Last("db_prepare", x, 1, <<>>)
  /\ UNCHANGED <<db, it, bindVars, txnVars>>

db_query ==
  /\ db.held /\ SlotFree
  /\ \E c \in {q \in QueryCalls : q.failAt = 0} :
       ReturnsIter("db_query", prepare_query(db.h, c.sql, c.args, CallerLocals, 0), c.args)
  /\ UNCHANGED <<db, bindVars, txnVars>>

db_query_one ==
  /\ db.held /\ SlotFree
  /\ \E c \in QueryCalls :
       Returns("db_query_one",
               step_one(prepare_query(db.h, c.sql, c.args, CallerLocals, c.failAt)), 1, c.args)
  /\ UNCHANGED <<db, it, bindVars, txnVars>>

db_query_all ==
  /\ db.held /\ SlotFree
  /\ \E c \in QueryCalls :
       Returns("db_query_all",
               step_all(prepare_query(db.h, c.sql, c.args, CallerLocals, c.failAt)), 1, c.args)
  /\ UNCHANGED <<db, it, bindVars, txnVars>>

\* sqlite3_step once: anything but SQLITE_DONE raises, else the change count
update_status(y) ==
  IF y.status # "DONE" THEN [y EXCEPT !.err = Err("update")]
  ELSE [y EXCEPT !.stack = lua_push(y.stack, IntV("0"))]

update_step(x) == IF Raised(x) THEN x ELSE update_status(sqlite3_step(x))

db_update ==
  /\ db.held /\ SlotFree
  /\ \E c \in QueryCalls :
       Returns("db_update",
               update_step(prepare_query(db.h, c.sql, c.args, CallerLocals, c.failAt)), 1, c.args)
  /\ UNCHANGED <<db, it, bindVars, txnVars>>

HasStmt == stmt.held /\ ~stmt.gone

\* stmt:bind(...): bind_stmt without a reset; returns the top of the stack
prep_stmt_bind ==
  /\ HasStmt
  /\ \E args \in StmtArgLists :
       Returns("prep_stmt_bind",
               BindIn(Run(stmt, <<Udata("stmt")>> \o args, 0), 1, CallerLocals), 1, args)
  /\ UNCHANGED <<db, it, bindVars, txnVars>>

prep_stmt_iter ==
  /\ HasStmt
  /\ \E args \in StmtArgLists :
       ReturnsIter("prep_stmt_iter", rebind_stmt(stmt, args, CallerLocals, 0), args)
  /\ UNCHANGED <<db, bindVars, txnVars>>

prep_stmt_one ==
  /\ HasStmt
  /\ \E args \in StmtArgLists, failAt \in FailAts :
       Returns("prep_stmt_one", step_one(rebind_stmt(stmt, args, CallerLocals, failAt)), 1, args)
  /\ UNCHANGED <<db, it, bindVars, txnVars>>

prep_stmt_all ==
  /\ HasStmt
  /\ \E args \in StmtArgLists, failAt \in FailAts :
       Returns("prep_stmt_all", step_all(rebind_stmt(stmt, args, CallerLocals, failAt)), 1, args)
  /\ UNCHANGED <<db, it, bindVars, txnVars>>

\* iter returns what its step, that ran as x, returns: the row or nothing
ReturnsStep(x) ==
  /\ stmt' = x.st
  /\ it' = [it EXCEPT !.ended = @ \/ (~Raised(x) /\ x.r = 0)]
  /\ last' = [Last("iter", x, x.r, <<>>) EXCEPT !.ended = it.ended]

\* one pull on the iterator closure.  Its upvalue is read with
\* lua_touserdata and dereferenced: when the upvalue is no userdata that is a
\* NULL dereference, and the process is lost.
iter ==
  /\ it.live /\ last.out # "crash"
  /\ \E failAt \in 0..1 :
       IF it.up.t # "userdata"
       THEN /\ last' = [NoLast EXCEPT !.op = "iter", !.out = "crash"]
            /\ UNCHANGED <<stmt, it>>
       ELSE ReturnsStep(step(Run(stmt, <<>>, failAt)))
  /\ UNCHANGED <<db, bindVars, txnVars>>

\* the Statement's __gc: called by the collector once nothing refers to the
\* wrapper, which is then freed, or by the program through the metatable
prep_stmt_close ==
  /\ ~stmt.gone /\ stmt.sql # "none"
  /\ \E gc \in BOOLEAN :
       /\ IF gc THEN ~stmt.held /\ ~UsesStmt(it)
                ELSE stmt.held /\ stmt.finCalls < MaxCloseCalls
       /\ stmt' = [close_sqlite_stmt(stmt) EXCEPT !.finCalls = @ + 1, !.gone = gc]
  /\ last' = [NoLast EXCEPT !.op = "prep_stmt_close"]
  /\ UNCHANGED <<db, it, bindVars, txnVars>>

\* the host program forgets a value it held
DropDb ==
  /\ db.held /\ db' = [db EXCEPT !.held = FALSE]
  /\ last' = [NoLast EXCEPT !.op = "drop"]
  /\ UNCHANGED <<stmt, it, bindVars, txnVars>>

DropStmt ==
  /\ HasStmt /\ stmt' = [stmt EXCEPT !.held = FALSE]
  /\ last' = [NoLast EXCEPT !.op = "drop"]
  /\ UNCHANGED <<db, it, bindVars, txnVars>>

DropIter ==
  /\ it.live /\ it' = [it EXCEPT !.live = FALSE]
  /\ last' = [NoLast EXCEPT !.op = "drop"]
  /\ UNCHANGED <<db, stmt, bindVars, txnVars>>

\* statements in use on an open Connection
NextStmt ==
  \/ db_prepare
  \/ db_query \/ db_query_one \/ db_query_all \/ db_update
  \/ prep_stmt_bind \/ prep_stmt_iter \/ prep_stmt_one \/ prep_stmt_all
  \/ iter \/ prep_stmt_close \/ DropStmt \/ DropIter

SpecStmt == InitStmt /\ [][NextStmt]_vars

\* the lifetime of the two wrappers: open, prepare, close, finalize, collect
InitLife ==
  /\ db = NoDb /\ stmt = NoStmt /\ it = NoIter /\ last = NoLast
  /\ conn = NoConn /\ frames = <<>> /\ ret = NoRet /\ used = NoUsed
  /\ call = [names |-> <<>>, args |-> <<>>, locals |-> <<>>]
  /\ res = None /\ res2 = None

NextLife ==
  \/ clutch_open \/ db_close \/ db_prepare \/ prep_stmt_close \/ DropDb \/ DropStmt

SpecLife == InitLife /\ [][NextLife]_vars

\* =====================================================================
\* Transactions on one open Connection.  frames is the stack of the
\* db_transaction calls whose body is running, the innermost last; a body
\* writes rows, calls db:transaction again, returns values or raises.
\* =====================================================================
Body == Func("body")
\* the arguments after the connection: none, a value that is no function,
\* the body, the body and a further value
TxnArgLists == {<<>>, <<StrV("x")>>, <<Body>>, <<Body, StrV("x")>>}
\* what a body returns, and the error values it raises
BodyResults == {<<>>, <<StrV("x")>>, <<IntV("1"), StrV("x")>>, <<Nil, StrV("x")>>}
BodyErrors == {StrV("boom"), Nil, Tbl(<<>>)}

InitTxn ==
  /\ db = OpenDb /\ stmt = NoStmt /\ it = NoIter /\ last = NoLast
  /\ conn = NoConn /\ frames = <<>> /\ ret = NoRet /\ used = NoUsed
  /\ call = [names |-> <<>>, args |-> <<>>, locals |-> <<>>]
  /\ res = None /\ res2 = None

\* db:transaction(...) by the program or by a running body, up to the call
\* of the body
db_transaction ==
  /\ db.held /\ Len(frames) < MaxDepth /\ used.calls < MaxTxnCalls
  /\ \E args \in TxnArgLists, fail \in BOOLEAN :
       LET x == db_transaction_enter(conn, db.h, <<Udata("db")>> \o args, fail) IN
       /\ conn' = x.conn
       /\ IF Raised(x)
          THEN /\ ret' = [NoRet EXCEPT !.op = "db_transaction", !.out = "raise",
                                       !.err = x.err, !.events = x.events,
                                       !.before = Len(conn.sps)]
               /\ frames' = frames
          ELSE /\ ret' = NoRet
               /\ frames' = Append(frames,
                    [fn |-> x.stack[Len(x.stack) - 1], bodyArgs |-> Ret(x.stack, 1),
                     base |-> SubSeq(x.stack, 1, Len(x.stack) - 2), events |-> x.events,
                     wrote |-> {}, before |-> Len(conn.sps), nested |-> FALSE])
  /\ used' = [used EXCEPT !.calls = @ + 1]
  /\ UNCHANGED <<bindVars, stmtVars>>

\* a write of one new row through the connection, by the running body or by
\* the program outside every transaction
Write ==
  /\ db.held /\ used.writes < MaxWrites
  /\ LET w == used.writes + 1 IN
     /\ conn' = [conn EXCEPT !.data = @ \cup {w}]
     /\ frames' = IF frames = <<>> THEN frames
                  ELSE [frames EXCEPT ![Len(frames)].wrote = @ \cup {w}]
     /\ used' = [used EXCEPT !.writes = w]
  /\ ret' = NoRet
  /\ UNCHANGED <<bindVars, stmtVars>>

\* the end of the innermost body: lua_pcall returns and db_transaction runs
\* to its return
Leave(ok, results) ==
  LET f == frames[Len(frames)]
      x == db_transaction_leave(conn, db.h, ok, f.base \o results)
  IN /\ conn' = x.conn
     /\ frames' = IF Len(frames) = 1 THEN <<>>
                  ELSE [SubSeq(frames, 1, Len(frames) - 1)
                          EXCEPT ![Len(frames) - 1].nested = TRUE]
     /\ ret' = [NoRet EXCEPT !.op = "db_transaction", !.out = "ret", !.vals = x.vals,
                             !.events = f.events \o x.events,
                             !.bodyOut = IF ok THEN "return" ELSE "raise",
                             !.bodyVals = results, !.bodyArgs = f.bodyArgs,
                             !.wrote = f.wrote, !.before = f.before,
                             !.nested = f.nested]
     /\ UNCHANGED <<used, bindVars, stmtVars>>

BodyReturn == frames # <<>> /\ \E results \in BodyResults : Leave(TRUE, results)

BodyRaise == frames # <<>> /\ \E e \in BodyErrors : Leave(FALSE, <<e>>)

NextTxn == db_transaction \/ Write \/ BodyReturn \/ BodyRaise

SpecTxn == InitTxn /\ [][NextTxn]_vars

\* =====================================================================
\* The binder as a function of its inputs: Init draws a statement's
\* parameter names and the arguments of one call, Bind applies bind_stmt.
\* =====================================================================
Digit == <<"1", "2", "3", "4", "5">>
NamedNames == {<<":", "a">>, <<"@", "b">>, <<"$", "a">>}
NamesAt(i) == {NoName, <<"?", Digit[i]>>} \cup NamedNames

\* the engine gives one index to each distinct name
ParamTables ==
  UNION {{s \in [1..n -> UNION {NamesAt(i) : i \in 1..n}] :
            /\ \A i \in 1..n : s[i] \in NamesAt(i)
            /\ \A i, j \in 1..n : (i # j /\ s[i] = s[j]) => s[i] = NoName}
         : n \in 0..MaxParams}

ArgValues == {Nil, StrV("x"), IntV("1"), FltV("1.5"), BoolV("true"), HugeStr}
TableKeys == {IntKey(i) : i \in 1..MaxParams} \cup {StrKey(<<"a">>), StrKey(<<"b">>)}
TableValues == {StrV("x"), IntV("1"), BoolV("true")}
LocalNames == {<<"a">>, <<"b">>}
LocalValues == {StrV("x"), StrV("y"), BoolV("true"), HugeStr}

\* the tables a constructor can build over these keys, each written with its
\* pairs in the order of KeyList (BindReordered tries the other orders)
KeyList == [i \in 1..MaxParams |-> IntKey(i)] \o <<StrKey(<<"a">>), StrKey(<<"b">>)>>

PairsOf(f) ==
  LET sel == SelectSeq(KeyList, LAMBDA k : k \in DOMAIN f)
  IN [i \in 1..Len(sel) |-> <<sel[i], f[sel[i]]>>]

PairSeqs ==
  UNION {{PairsOf(f) : f \in [S -> TableValues]} :
           S \in {T \in SUBSET TableKeys : Cardinality(T) <= MaxPairs}}

LocalFrames == SeqsUpTo([name : LocalNames, val : LocalValues], MaxLocals)

\* one table; one table followed by a further value; values the first of
\* which is no table; nothing
ArgLists ==
  {<<>>}
  \cup {<<Tbl(p)>> : p \in PairSeqs}
  \cup {<<Tbl(p), StrV("x")>> : p \in PairSeqs}
  \cup {a \in SeqsUpTo(ArgValues, MaxArgs) : a # <<>>}
  \cup {<<StrV("x"), Tbl(<<>>)>>}

BindCalls ==
  {c \in [names : ParamTables, args : ArgLists, locals : LocalFrames] :
     c.args # <<>> => c.locals = <<>>}

\* the stack of the C function when bind_stmt is called with nargs leading
\* values: the Statement alone (stmt methods) or db, sql, Statement (db methods)
Prefix(nargs) ==
  IF nargs = 1 THEN <<Udata("stmt")>>
  ELSE <<Udata("db"), StrV("sql"), Udata("stmt")>>

OldValue == SqlText("old")

StartBind(names, nargs, args) ==
  [h |-> TRUE, names |-> names, bound |-> [i \in 1..Len(names) |-> OldValue],
   vm |-> "ready", stack |-> Prefix(nargs) \o args, status |-> "OK", err |-> NoErr]

InitBind ==
  /\ call \in BindCalls
  /\ res = None
  /\ res2 = None
  /\ db = NoDb /\ stmt = NoStmt /\ it = NoIter /\ last = NoLast
  /\ conn = NoConn /\ frames = <<>> /\ ret = NoRet /\ used = NoUsed

\* bind_stmt as prep_stmt_bind and rebind_stmt call it (nargs = 1) and as
\* prepare_query calls it (nargs = 3)
Bind(nargs) ==
  /\ res = None
  /\ res' = [nargs |-> nargs,
             b |-> bind_stmt(StartBind(call.names, nargs, call.args), nargs, call.locals)]
  /\ UNCHANGED <<call, res2, stmtVars, txnVars>>

Perms(n) == {f \in [1..n -> 1..n] : \A i, j \in 1..n : i # j => f[i] # f[j]}

\* the same call with the table's pairs inserted in another order
BindReordered ==
  /\ res # None /\ res2 = None
  /\ Len(call.args) = 1 /\ lua_istable(call.args[1])
  /\ \E f \in Perms(Len(call.args[1].v)) :
       LET p == call.args[1].v
           q == [i \in 1..Len(p) |-> p[f[i]]]
       IN res2' = [nargs |-> res.nargs,
                   b |-> bind_stmt(StartBind(call.names, res.nargs, <<Tbl(q)>>),
                                   res.nargs, call.locals)]
  /\ UNCHANGED <<call, res, stmtVars, txnVars>>

NextBind == Bind(1) \/ Bind(3) \/ BindReordered

SpecBind == InitBind /\ [][NextBind]_vars

\* ---------------------------------------------------------------------
\* Claims about transactions (checked under SpecTxn)
\* ---------------------------------------------------------------------
Returned == ret.op = "db_transaction" /\ ret.out = "ret"

\* C1: when a body that wrote a row raises and db_transaction returns
\* (false, err), the row is not visible on the connection; when the body
\* returns normally and db_transaction returns (true, ...), the row is
\* visible.
C1_Atomicity ==
  (Returned /\ ret.wrote # {}) =>
    /\ (ret.bodyOut = "raise" /\ ret.vals[1] = BoolV("false"))
         => ret.wrote \cap conn.data = {}
    /\ (ret.bodyOut = "return" /\ ret.vals[1] = BoolV("true"))
         => ret.wrote \subseteq conn.data

\* C2: a call of db_transaction that passes its argument check issues
\* SAVEPOINT first; if that fails it raises and the body is not invoked;
\* otherwise it invokes the body once with the connection as its only
\* argument, and then issues RELEASE and returns true followed by the body's
\* results in order when the body returned, or issues ROLLBACK TO and
\* returns false followed by the body's error value when the body raised.
C2_Protocol ==
  /\ \A i \in 1..Len(frames) :
       /\ frames[i].events = <<"SAVEPOINT", "body">>
       /\ frames[i].fn = Body /\ frames[i].bodyArgs = <<Udata("db")>>
  /\ (ret.op = "db_transaction" /\ ret.out = "raise") =>
       "body" \notin {ret.events[i] : i \in 1..Len(ret.events)}
  /\ Returned =>
       /\ ret.bodyArgs = <<Udata("db")>>
       /\ ret.bodyOut = "return" =>
            /\ ret.events = <<"SAVEPOINT", "body", "RELEASE">>
            /\ ret.vals = <<BoolV("true")>> \o ret.bodyVals
       /\ ret.bodyOut = "raise" =>
            /\ ret.events = <<"SAVEPOINT", "body", "ROLLBACK TO">>
            /\ ret.vals = <<BoolV("false")>> \o ret.bodyVals
       /\ ret.bodyOut \in {"return", "raise"}

\* a body that returned two values: true, then the two in order
C2_Witness ==
  /\ Returned /\ ret.bodyOut = "return"
  /\ ret.bodyVals = <<IntV("1"), StrV("x")>>
  /\ ret.vals = <<BoolV("true"), IntV("1"), StrV("x")>>

\* ---------------------------------------------------------------------
\* Claims about the binder (checked under SpecBind)
\* ---------------------------------------------------------------------
VarargsMode == call.args # <<>> /\ ~lua_istable(call.args[1])
TableMode == Len(call.args) = 1 /\ lua_istable(call.args[1])
LocalsMode == call.args = <<>>
BindOK(r) == r # None /\ ~Raised(r.b) /\ r.b.status = "OK"
Min(a, b) == IF a < b THEN a ELSE b

\* what bind_one_param stores in a parameter for the Lua value v
NativeOf(v) ==
  bind_one_param([h |-> TRUE, names |-> <<NoName>>, bound |-> <<OldValue>>, vm |-> "ready",
                  stack |-> <<v>>, status |-> "OK", err |-> NoErr], 1).bound[1]

Accepted(v) == v.t \in {"string", "integer", "float", "nil"} /\ v # HugeStr

\* C8: in positional mode with N values and count parameters, whenever the
\* binder returns OK parameter i holds a_i for i <= min(N, count) and NULL for
\* N < i <= count, and the stack is back to its leading nargs values; values
\* beyond count are dropped and raise nothing, whatever their type.
C8_Varargs ==
  (res # None /\ VarargsMode) =>
    LET N == Len(call.args)
        count == Len(call.names)
    IN /\ BindOK(res) =>
            /\ \A i \in 1..count :
                 res.b.bound[i] = IF i <= N THEN NativeOf(call.args[i]) ELSE SqlNull
            /\ res.b.stack = Prefix(res.nargs)
       /\ (\A i \in 1..Min(N, count) : Accepted(call.args[i])) => BindOK(res)

\* one value for two parameters: the second parameter is padded with NULL
C8_Witness ==
  /\ res # None /\ VarargsMode /\ BindOK(res)
  /\ Len(call.args) = 1 /\ Len(call.names) = 2
  /\ res.b.bound = <<SqlText("x"), SqlNull>>

\* the value a table maps a key to, by its key/value mapping
MapGet(pairs, key) ==
  IF \E j \in 1..Len(pairs) : pairs[j][1] = key
  THEN pairs[CHOOSE j \in 1..Len(pairs) : pairs[j][1] = key][2]
  ELSE Nil

\* what the caller can observe of a bind: the values bound, the status and
\* the error raised
Outcome(r) == [bound |-> r.b.bound, status |-> r.b.status, err |-> r.b.err]

\* C9: in table mode (one table), whenever the binder returns OK parameter i
\* holds table[i] when its name is absent or starts with '?', and
\* table[name without its sigil] otherwise, NULL for a missing key; and the
\* outcome is the same for every insertion order of the table's pairs.
C9_TableMode ==
  (res # None /\ TableMode) =>
    /\ BindOK(res) =>
         \A i \in 1..Len(call.names) :
           LET name == call.names[i]
               key == IF name = NoName \/ name[1] = "?" THEN IntKey(i)
                      ELSE StrKey(Tail(name))
           IN res.b.bound[i] = NativeOf(MapGet(call.args[1].v, key))
    /\ res2 # None => Outcome(res2) = Outcome(res)

\* {[1] = "x", a = 1} for parameters ?, :a, bound in both insertion orders
C9_Witness ==
  /\ res # None /\ TableMode /\ BindOK(res) /\ res2 # None
  /\ call.names = <<NoName, <<":", "a">>>>
  /\ Len(call.args[1].v) = 2
  /\ res.b.bound = <<SqlText("x"), SqlText("1")>>

\* the local variable a name refers to at the call site: the most recently
\* declared active local of that name
InScope(locals, name) ==
  IF \E j \in 1..Len(locals) : locals[j].name = name
  THEN LET lastj == CHOOSE j \in 1..Len(locals) :
                     /\ locals[j].name = name
                     /\ \A k \in (j + 1)..Len(locals) : locals[k].name # name
       IN locals[lastj].val
  ELSE Nil

\* C10: with no binding arguments each named parameter is bound to the local
\* variable of the caller that its name (sigil stripped) refers to at the
\* call site, the most recently declared one when several share the name,
\* and to NULL when the caller has no such local.
C10_LocalsInScope ==
  (res # None /\ LocalsMode /\ BindOK(res)) =>
    \A i \in 1..Len(call.names) :
      res.b.bound[i] = NativeOf(InScope(call.locals, Tail(call.names[i])))

\* ---------------------------------------------------------------------
\* Claims about the wrappers' lifetime (SpecLife) and about statements in
\* use (SpecStmt)
\* ---------------------------------------------------------------------

\* C3: over any sequence of close and __gc calls on a Connection, and of
\* __gc calls on a Statement, the native handle is released at most once,
\* exactly once if it was ever non-NULL; after the first call the wrapper
\* holds NULL, and no call raises.
C3_ReleaseOnce ==
  /\ db.closes <= 1 /\ stmt.fins <= 1
  /\ db.closeCalls >= 1 => (~db.h /\ db.closes = IF db.ever THEN 1 ELSE 0)
  /\ stmt.finCalls >= 1 => (~stmt.h /\ stmt.fins = IF stmt.ever THEN 1 ELSE 0)
  /\ last.op \in {"db_close", "prep_stmt_close"} => last.out = "ret"

\* both wrappers closed twice, each handle released once
C3_Witness ==
  /\ db.closeCalls = 2 /\ db.closes = 1
  /\ stmt.finCalls = 2 /\ stmt.fins = 1

\* C4: db queryone and stmt one make at most two engine steps; when the
\* statement runs without an engine failure they return its row if it yields
\* exactly one, raise "no results" if it yields none and "too many results"
\* if it yields two or more.
C4_SingleResult ==
  last.op \in {"db_query_one", "prep_stmt_one"} =>
    /\ last.steps <= 2
    /\ (last.steps >= 1 /\ last.h /\ ~last.stepErr) =>
         LET n == Len(last.rows) IN
         /\ n = 1 => (last.out = "ret" /\ last.vals = <<handle_row(last.rows[1])>>)
         /\ n = 0 => (last.out = "raise" /\ last.err = Err("no results"))
         /\ n >= 2 => (last.out = "raise" /\ last.err = Err("too many results"))

\* stmt:one("x") on a statement with two parameters: one row, two steps
C4_Witness ==
  /\ last.op = "prep_stmt_one" /\ last.out = "ret" /\ last.steps = 2
  /\ last.rows = <<SqlText("x")>>
  /\ last.vals = <<Tbl(<<<<StrKey(<<"v">>), StrV("x")>>>>)>>

C6_BindFailureReported ==
  last.bstatus \in {"MISUSE", "RANGE", "TOOBIG"} => (last.out = "raise" /\ last.steps = 0)

\* the values the arguments of a call give the parameters
ExpectedBound(names, args, locals) ==
  [i \in 1..Len(names) |->
     IF args = <<>> THEN NativeOf(InScope(locals, Tail(names[i])))
     ELSE IF lua_istable(args[1])
       THEN NativeOf(MapGet(args[1].v,
                            IF names[i] = NoName \/ names[i][1] = "?" THEN IntKey(i)
                            ELSE StrKey(Tail(names[i]))))
     ELSE IF i <= Len(args) THEN NativeOf(args[i]) ELSE SqlNull]

\* C7: after stmt iter/one/all has executed a prepared Statement with new
\* arguments (none, one table, or positional values), every parameter holds
\* the value the new arguments give it, NULL for a missing one: nothing of an
\* earlier binding remains.
C7_ReboundFromNewArguments ==
  (/\ last.op \in {"prep_stmt_iter", "prep_stmt_one", "prep_stmt_all"}
   /\ last.out = "ret" /\ last.h
   /\ (last.args # <<>> /\ lua_istable(last.args[1])) => Len(last.args) = 1)
  => stmt.bound = ExpectedBound(stmt.names, last.args, CallerLocals)

\* ---------------------------------------------------------------------
\* Further claims about the binder (checked under SpecBind)
\* ---------------------------------------------------------------------
Unnamed(name) == name = NoName \/ ~is_named_parameter(name)
UnnamedError == Err("anonymous and numbered parameters not supported")

\* C11: with no binding arguments, a statement that has a parameter that is
\* anonymous or numbered makes the bind raise the unnamed-parameter error
\* (so that the statement is not stepped); a statement with no parameters is
\* accepted.
C11_UnnamedRejected ==
  (res # None /\ LocalsMode) =>
    /\ (\E i \in 1..Len(call.names) : Unnamed(call.names[i])) => res.b.err = UnnamedError
    /\ call.names = <<>> => BindOK(res)

\* the host value read back from a result column that holds the native val:
\* the field v of the row handle_row builds
ReadBack(val) == lua_getfield(handle_row(val), <<"v">>)

\* C12: a supported scalar (string, integer, float, nil) that is bound to a
\* parameter and read back as a result column is the same value of the same
\* kind.
C12_RoundTrip ==
  (res # None /\ VarargsMode /\ BindOK(res)) =>
    \A i \in 1..Min(Len(call.args), Len(call.names)) :
      Accepted(call.args[i]) => ReadBack(res.b.bound[i]) = call.args[i]

Unsupported(v) == v.t \notin {"string", "integer", "float", "nil"}

\* the value the binder resolves for parameter i: the i-th positional value,
\* the table's entry for the parameter's index or name, the caller's local of
\* the parameter's name as find_local finds it
Resolved(i) ==
  IF VarargsMode THEN IF i <= Len(call.args) THEN call.args[i] ELSE Nil
  ELSE IF TableMode
    THEN MapGet(call.args[1].v,
                IF call.names[i] = NoName \/ call.names[i][1] = "?" THEN IntKey(i)
                ELSE StrKey(Tail(call.names[i])))
  ELSE find_local(call.locals, Tail(call.names[i]))

\* the binding modes with a value resolved for every parameter: positional
\* values, one table, and the caller's locals for a statement whose
\* parameters are all named
ResolvesAll ==
  \/ VarargsMode
  \/ TableMode
  \/ LocalsMode /\ \A i \in 1..Len(call.names) : ~Unnamed(call.names[i])

\* C13: in every binding mode, when the value resolved for a parameter is
\* neither a string, a number nor nil, the bind raises the unsupported-type
\* error, which names the position and the type of such a value, and nothing
\* is bound at that parameter (the raise keeps the statement from being
\* stepped).
C13_UnsupportedIsError ==
  (res # None /\ ResolvesAll) =>
    \A i \in 1..Len(call.names) :
      Unsupported(Resolved(i)) =>
        /\ Raised(res.b) /\ res.b.err.msg = "unsupported lua type"
        /\ res.b.err.pos \in 1..Len(call.names)
        /\ Unsupported(Resolved(res.b.err.pos))
        /\ res.b.err.type = Resolved(res.b.err.pos).t
        /\ res.b.bound[i] = OldValue

\* ---------------------------------------------------------------------
\* Further claims about statements in use (checked under SpecStmt)
\* ---------------------------------------------------------------------

\* the sequence of the rows built from the native values rows, at 1..n
AllRows(rows) == Tbl([i \in 1..Len(rows) |-> <<IntKey(i), handle_row(rows[i])>>])

\* C14: db queryall and stmt all, when they return, return one sequence that
\* holds every row of the statement at 1..n in the engine's order, after
\* stepping once per row and once more for the end; they return, the empty
\* sequence for a statement without rows, whenever the statement runs
\* without an engine failure.
C14_AllResults ==
  last.op \in {"db_query_all", "prep_stmt_all"} =>
    /\ last.out = "ret" =>
         /\ last.h
         /\ last.vals = <<AllRows(last.rows)>>
         /\ last.steps = Len(last.rows) + 1
    /\ (last.h /\ last.steps >= 1 /\ ~last.stepErr) => last.out = "ret"

\* stmt:all("x", "x"): two rows, three steps
C14_Witness ==
  /\ last.op = "prep_stmt_all" /\ last.out = "ret" /\ last.steps = 3
  /\ last.rows = <<SqlText("x"), SqlText("x")>>
  /\ Len(last.vals[1].v) = 2

\* C15: once a Statement's handle has been released, stmt bind, iter, one
\* and all on it, and a pull on an iterator made over it, raise an error.
C15_FinalizedIsError ==
  (/\ last.op \in {"prep_stmt_bind", "prep_stmt_iter", "prep_stmt_one", "prep_stmt_all", "iter"}
   /\ last.op = "iter" => it.up = Udata("stmt")
   /\ stmt.ever /\ ~stmt.h)
  => last.out = "raise"

\* ---------------------------------------------------------------------
\* Further claims about the wrappers' lifetime (checked under SpecLife)
\* ---------------------------------------------------------------------

\* C16: a prepare that fails raises the engine's error and leaves a
\* Statement wrapper that holds NULL; an open that fails raises and leaves a
\* Connection wrapper whose handle, if the engine gave one, has been
\* released and set to NULL; the finalizer that runs on either wrapper later
\* releases nothing.
C16_NoHandleAfterFailure ==
  /\ (last.op = "db_prepare" /\ last.out = "raise")
       => (stmt.failed /\ last.err = Err("prepare"))
  /\ (last.op = "clutch_open" /\ last.out = "raise") => db.failed
  /\ stmt.failed => (~stmt.h /\ stmt.fins = 0)
  /\ db.failed => (~db.h /\ db.closes = IF db.ever THEN 1 ELSE 0)

\* an open that failed with a handle, released once, and its wrapper
\* collected since
C16_Witness ==
  /\ db.failed /\ db.ever /\ db.gone /\ db.closeCalls = 1 /\ db.closes = 1

\* ---------------------------------------------------------------------
\* Claims about the iterator (checked under SpecStmt)
\* ---------------------------------------------------------------------

\* the last call was a pull on the iterator that signalled end-of-results
PullEnded == last.op = "iter" /\ last.out = "ret" /\ last.vals = <<>>

\* C17: once a pull on the iterator has signalled end-of-results, the next
\* pull on the same iterator, if the engine does not fail, signals
\* end-of-results too and never returns a row.
C17_NotRestartable ==
  [][(PullEnded /\ last'.op = "iter" /\ ~last'.stepErr)
       => (last'.out = "ret" /\ last'.vals = <<>>)]_vars

\* C18: a pull on the iterator makes one engine step; a step that returns a
\* row gives the row built from the statement's current row, a step that
\* returns SQLITE_DONE gives the end of the results and no row, and a step
\* that fails, in a pull, in single-result or in all-results mode, raises the
\* step error at once: it is the last step made, and the call does not
\* return.
C18_StepStatus ==
  /\ (last.op = "iter" /\ last.out # "crash") =>
       /\ last.steps = 1
       /\ (last.out = "ret" /\ last.vals # <<>>) =>
            /\ stmt.vm = "running"
            /\ last.vals = <<handle_row(RowsOf(stmt)[stmt.cursor])>>
       /\ (last.out = "ret" /\ last.vals = <<>>) => stmt.vm = "halted"
       /\ ~stmt.h => last.out = "raise"
  /\ (/\ last.op \in {"iter", "db_query_one", "db_query_all", "prep_stmt_one", "prep_stmt_all"}
      /\ last.stepErr)
       => (last.out = "raise" /\ last.err = Err("step") /\ last.steps = last.failedAt)

\* stmt:all on a statement of two rows whose second step fails
C18_Witness ==
  /\ last.op = "prep_stmt_all" /\ last.stepErr /\ last.failedAt = 2
  /\ last.out = "raise" /\ last.err = Err("step")
  /\ Len(last.rows) = 2

\* ---------------------------------------------------------------------
\* Further claims about transactions (checked under SpecTxn)
\* ---------------------------------------------------------------------

\* C19: when db_transaction returns, after a body that returned or that
\* raised, as many savepoints are open on the connection as were open before
\* the call.
C19_SavepointBalance == Returned => Len(conn.sps) = ret.before

\* ---------------------------------------------------------------------
\* The binder's use of the stack (checked under SpecBind)
\* ---------------------------------------------------------------------

\* C20: for every shape of the arguments (none, a table alone, a table
\* followed by further values, values that start with no table), when
\* bind_stmt returns OK it leaves the stack with its leading nargs values
\* alone, the Statement wrapper on top, and in table mode every parameter
\* has been looked up in the table that selected the mode.
C20_StackDiscipline ==
  (res # None /\ BindOK(res)) =>
    /\ res.b.stack = Prefix(res.nargs)
    /\ Top(res.b.stack) = Udata("stmt")
    /\ (call.args # <<>> /\ lua_istable(call.args[1])) =>
         \A i \in 1..Len(call.names) :
           res.b.bound[i] =
             NativeOf(MapGet(call.args[1].v,
                             IF call.names[i] = NoName \/ call.names[i][1] = "?"
                             THEN IntKey(i) ELSE StrKey(Tail(call.names[i]))))

====
